---- MODULE Spec2Model ----
(***************************************************************************)
(* Model of the island map generator: BuildMapDefinition of                *)
(* shared/WorldBuilder.ts together with BiomeManager.getTileBiome.         *)
(*                                                                         *)
(* Heights are integers in tenths (waterLevel -0.4 is -4, 0.2 is 2).       *)
(* An axial coordinate is a record [X, Z]; a map key (the nested           *)
(* tiles.get(X).get(Z) lookup and the "X,Z" string of axialKey) is the     *)
(* pair <<X, Z>>.                                                          *)
(***************************************************************************)
EXTENDS Integers, Sequences, FiniteSets, TLC

\* ------------------------------------------------------------------ bounds
MaxRadius == 2
MaxTowns == 2
MaxSeed == 12
MaxFilterRuns == 2
MaxFloodRing == 2
\* how far behind the head of the queue an out-of-order expansion may pick
MaxReorder == 2

\* --------------------------------------------------------- program constants
DefaultWaterLevel == -4
SnowLine == 2
MaxExclusionRadius == 10
MaxRetries == 3

Radii == -1 .. MaxRadius
TownCounts == -1 .. MaxTowns
Seeds == 0 .. MaxSeed
WaterLevels == {-1}

\* ------------------------------------------------------------------ HexUtil
Abs(n) == IF n < 0 THEN -n ELSE n

Max2(a, b) == IF a >= b THEN a ELSE b

Min2(a, b) == IF a <= b THEN a ELSE b

Axial(x, z) == [X |-> x, Z |-> z]

axialKey(axial) == <<axial.X, axial.Z>>

\* hex distance between two axial coordinates
hexDistance(a, b) ==
    Max2(Max2(Abs(a.X - b.X), Abs(a.Z - b.Z)), Abs((a.X - b.X) + (a.Z - b.Z)))

cubeDistance(axial) == hexDistance(axial, Axial(0, 0))

\* the six ring-1 steps, in enumeration order
HexDirections ==
    << Axial(1, 0), Axial(1, -1), Axial(0, -1),
       Axial(-1, 0), Axial(-1, 1), Axial(0, 1) >>

\* ring-1 neighbours of a coordinate in enumeration order
ringOne(axial) ==
    [i \in 1 .. 6 |-> Axial(axial.X + HexDirections[i].X, axial.Z + HexDirections[i].Z)]

\* every coordinate within `radius` steps of axial, the centre excluded
\* when radius > 0
getNearbyCoordinates(axial, radius) ==
    IF radius < 0 THEN {}
    ELSE IF radius = 0 THEN {axial}
    ELSE { Axial(axial.X + dx, axial.Z + dz) :
             <<dx, dz>> \in { d \in (-radius .. radius) \X (-radius .. radius) :
                                /\ Max2(Max2(Abs(d[1]), Abs(d[2])), Abs(d[1] + d[2])) <= radius
                                /\ d # <<0, 0>> } }

\* undecayed noise in -8 .. 7, a fixed function of (coordinate, seed)
baseNoise(axial, seed) ==
    ((seed * seed * 3 + seed * 7 + (axial.X + 8) * 5 + (axial.Z + 8) * 11
        + (axial.X + 8) * (axial.Z + 8) * (seed + 1)) % 16) - 8

\* lower end of the noise provider's range
HeightFloor == -24

\* height of a coordinate: noise that loses 4 tenths per ring from the centre,
\* within the provider's bounded range
calculateDecayingNoise(axial, seed, radius) ==
    Max2(baseNoise(axial, seed) - 4 * cubeDistance(axial), HeightFloor)

\* ------------------------------------------------------------- BiomeManager
tileHasWater(axial, config) ==
    calculateDecayingNoise(axial, config.Seed, config.Radius) <= config.WaterLevel

tileIsCoastline(axial, config) ==
    \E i \in 1 .. 6 : tileHasWater(ringOne(axial)[i], config)

\* the height thresholds taken inclusively
getTileBiomeInclusive(axial, config) ==
    IF tileHasWater(axial, config) THEN "Water"
    ELSE IF tileIsCoastline(axial, config) THEN "Coastline"
    ELSE LET height == calculateDecayingNoise(axial, config.Seed, config.Radius)
         IN  IF height >= SnowLine THEN "MountainSnow"
             ELSE IF height >= 0 THEN "Mountain"
             ELSE "Grassland"

getTileBiome(axial, config) ==
    IF tileHasWater(axial, config) THEN "Water"
    ELSE IF tileIsCoastline(axial, config) THEN "Coastline"
    ELSE LET height == calculateDecayingNoise(axial, config.Seed, config.Radius)
         IN  IF height > SnowLine THEN "MountainSnow"
             ELSE IF height > 0 THEN "Mountain"
             ELSE "Grassland"

\* -------------------------------------------------------------------- state
VARIABLES
    pc,                        \* position in BuildMapDefinition
    config,                    \* the MapConfig object (optional fields: {} or {v})
    tiles,                     \* key <<X, Z>> -> TileDefinition
    cubeX,                     \* outer counter of the build loop
    visited,                   \* key -> BOOLEAN (flood fill marks)
    toVisit,                   \* flood fill queue
    visitIdx,                  \* flood fill cursor (0-based)
    townExclusionZoneRadius,
    townExclusionZoneRetries,
    townsGenerated,
    townSeeds,                 \* candidates of the round still to be examined
    newTownThisIteration,
    result,                    \* "none" until the map is returned
    landAfterFilter,           \* keys of the Land tiles when the filter finished
    filterRuns,                \* passes of the connectivity filter completed
    rounds                     \* placement rounds completed

vars == << pc, config, tiles, cubeX, visited, toVisit, visitIdx,
           townExclusionZoneRadius, townExclusionZoneRetries, townsGenerated,
           townSeeds, newTownThisIteration, result, landAfterFilter, filterRuns,
           rounds >>

floodVars == << visited, toVisit, visitIdx >>

placerVars == << townExclusionZoneRadius, townExclusionZoneRetries,
                 townsGenerated, townSeeds, newTownThisIteration, rounds >>

\* resolved (MapConfigImpl) view of the config object
Impl ==
    [ Radius |-> config.Radius,
      TotalTowns |-> config.TotalTowns,
      GenerateBiomes |-> config.GenerateBiomes,
      WaterLevel |-> CHOOSE w \in config.WaterLevel : TRUE,
      Seed |-> CHOOSE s \in config.Seed : TRUE ]

\* the locals of BuildMapDefinition before its first statement
initLocals ==
    /\ pc = "start"
    /\ tiles = << >>
    /\ cubeX = 0
    /\ visited = << >>
    /\ toVisit = << >>
    /\ visitIdx = 0
    /\ townExclusionZoneRadius = 0
    /\ townExclusionZoneRetries = 0
    /\ townsGenerated = 0
    /\ townSeeds = << >>
    /\ newTownThisIteration = FALSE
    /\ result = "none"
    /\ landAfterFilter = {}
    /\ filterRuns = 0
    /\ rounds = 0

Init ==
    /\ config \in [ Radius : Radii,
                    TotalTowns : TownCounts,
                    GenerateBiomes : BOOLEAN,
                    WaterLevel : {{}} \cup { {w} : w \in WaterLevels },
                    Seed : {{}} \cup { {s} : s \in Seeds } ]
    /\ initLocals

\* lines 52-63: defaults are written into the caller's config object
Start ==
    /\ pc = "start"
    /\ \E s \in (IF config.Seed = {} THEN Seeds ELSE config.Seed) :
         config' = [config EXCEPT
                      !.Seed = {s},
                      !.WaterLevel = IF config.WaterLevel = {} THEN {DefaultWaterLevel}
                                     ELSE config.WaterLevel]
    /\ cubeX' = -config.Radius
    /\ pc' = "build"
    /\ UNCHANGED << tiles, result, landAfterFilter, filterRuns >>
    /\ UNCHANGED floodVars
    /\ UNCHANGED placerVars

\* the range without its clamps to the hexagon
cubeYRangeUnclamped(x, radius) == -radius .. radius

\* lines 71-75: range of cubeY for one cubeX
cubeYRange(x, radius) ==
    Max2(-radius, -x - radius) .. Min2(radius, -x + radius)

\* lines 88-109: the tile created for one (cubeX, cubeY)
newTile(x, y, cfg) ==
    LET axial == Axial(x, -x - y)
        height == calculateDecayingNoise(axial, cfg.Seed, cfg.Radius)
    IN  [ Position |-> axial,
          Type |-> IF height <= cfg.WaterLevel THEN "Water" ELSE "Land",
          Biome |-> IF cfg.GenerateBiomes THEN getTileBiome(axial, cfg) ELSE "Grassland" ]

\* lines 70-112: one iteration of the outer loop (a whole zMap)
BuildRow ==
    /\ pc = "build"
    /\ cubeX <= config.Radius
    /\ LET row == { <<cubeX, -cubeX - y>> : y \in cubeYRange(cubeX, config.Radius) }
       IN  tiles' = [ k \in DOMAIN tiles \cup row |->
                        IF k \in row THEN newTile(k[1], -k[1] - k[2], Impl)
                        ELSE tiles[k] ]
    /\ cubeX' = cubeX + 1
    /\ UNCHANGED << pc, config, result, landAfterFilter, filterRuns >>
    /\ UNCHANGED floodVars
    /\ UNCHANGED placerVars

\* lines 115-119: the flood fill is seeded with the origin
FloodInit ==
    /\ pc = "build"
    /\ cubeX > config.Radius
    /\ visited' = [ k \in {<<0, 0>>} |-> TRUE ]
    /\ toVisit' = << Axial(0, 0) >>
    /\ visitIdx' = 0
    /\ pc' = "flood"
    /\ UNCHANGED << config, tiles, cubeX, result, landAfterFilter, filterRuns >>
    /\ UNCHANGED placerVars

\* lines 149-151: visited.get(key) is truthy
visitGood(position, marks) ==
    /\ axialKey(position) \in DOMAIN marks
    /\ marks[axialKey(position)]

\* the last neighbour of the enumeration is never sampled
floodMarksFive(tile, marks, cfg) ==
    LET fresh == { i \in 1 .. 5 : axialKey(ringOne(tile)[i]) \notin DOMAIN marks }
        keys == { axialKey(ringOne(tile)[i]) : i \in fresh }
    IN  [ k \in DOMAIN marks \cup keys |->
            IF k \in DOMAIN marks THEN marks[k]
            ELSE calculateDecayingNoise(Axial(k[1], k[2]), cfg.Seed, cfg.Radius)
                     > cfg.WaterLevel ]

\* lines 124-137: the marks after the neighbours of one dequeued tile are sampled
floodMarks(tile, marks, cfg) ==
    LET fresh == { i \in 1 .. 6 : axialKey(ringOne(tile)[i]) \notin DOMAIN marks }
        keys == { axialKey(ringOne(tile)[i]) : i \in fresh }
    IN  [ k \in DOMAIN marks \cup keys |->
            IF k \in DOMAIN marks THEN marks[k]
            ELSE calculateDecayingNoise(Axial(k[1], k[2]), cfg.Seed, cfg.Radius)
                     > cfg.WaterLevel ]

\* lines 132-135: the neighbours pushed on the queue, in enumeration order
floodPushed(tile, marks, cfg) ==
    SelectSeq(ringOne(tile),
              LAMBDA n : /\ axialKey(n) \notin DOMAIN marks
                         /\ calculateDecayingNoise(n, cfg.Seed, cfg.Radius) > cfg.WaterLevel)

\* every coordinate is above the water level: the level lies below the
\* noise provider's range
everywhereAboveWater(cfg) == cfg.WaterLevel < HeightFloor

\* the dequeued coordinate lies past the rings the model keeps track of, in
\* a world without water
pastHorizon ==
    /\ visitIdx < Len(toVisit)
    /\ cubeDistance(toVisit[visitIdx + 1]) > MaxFloodRing
    /\ everywhereAboveWater(Impl)

\* lines 120-139: one dequeued tile is expanded
FloodStep ==
    /\ pc = "flood"
    /\ visitIdx < Len(toVisit)
    /\ ~pastHorizon
    /\ LET tile == toVisit[visitIdx + 1]
       IN  /\ visited' = floodMarks(tile, visited, Impl)
           /\ toVisit' = toVisit \o floodPushed(tile, visited, Impl)
    /\ visitIdx' = visitIdx + 1
    /\ UNCHANGED << pc, config, tiles, cubeX, result, landAfterFilter, filterRuns >>
    /\ UNCHANGED placerVars

\* every tile retyped from its mark, the Land test dropped
demoteTilesRetype(grid, marks) ==
    [ k \in DOMAIN grid |->
        IF visitGood(grid[k].Position, marks)
        THEN [grid[k] EXCEPT !.Type = "Land"]
        ELSE [grid[k] EXCEPT !.Biome = "Water", !.Type = "Water"] ]

\* the biome is overwritten but the type is left alone
demoteTilesBiomeOnly(grid, marks) ==
    [ k \in DOMAIN grid |->
        IF grid[k].Type = "Land" /\ ~visitGood(grid[k].Position, marks)
        THEN [grid[k] EXCEPT !.Biome = "Water"]
        ELSE grid[k] ]

\* unmarked tiles are flipped between Land and Water instead of set to Water
demoteTilesToggle(grid, marks) ==
    [ k \in DOMAIN grid |->
        IF ~visitGood(grid[k].Position, marks)
        THEN [grid[k] EXCEPT !.Biome = "Water",
                             !.Type = IF grid[k].Type = "Land" THEN "Water" ELSE "Land"]
        ELSE grid[k] ]

\* every tile without a reachable mark is overwritten, Land or not
demoteTilesAnyType(grid, marks) ==
    [ k \in DOMAIN grid |->
        IF ~visitGood(grid[k].Position, marks)
        THEN [grid[k] EXCEPT !.Biome = "Water", !.Type = "Water"]
        ELSE grid[k] ]

\* lines 146-157: the grid after the demotion pass
demoteTiles(grid, marks) ==
    [ k \in DOMAIN grid |->
        IF grid[k].Type = "Land" /\ ~visitGood(grid[k].Position, marks)
        THEN [grid[k] EXCEPT !.Biome = "Water", !.Type = "Water"]
        ELSE grid[k] ]

\* lines 140-165: the queue is exhausted; demote, then set up the placer
Demote ==
    /\ pc = "flood"
    /\ visitIdx >= Len(toVisit)
    /\ tiles' = demoteTiles(tiles, visited)
    /\ landAfterFilter' = { k \in DOMAIN tiles : tiles'[k].Type = "Land" }
    /\ filterRuns' = filterRuns + 1
    /\ townExclusionZoneRadius' = Min2(config.Radius, MaxExclusionRadius)
    /\ townExclusionZoneRetries' = 0
    /\ townsGenerated' = 0
    /\ pc' = "towns"
    /\ UNCHANGED << config, cubeX, result, townSeeds, newTownThisIteration, rounds >>
    /\ UNCHANGED floodVars

\* injective sequences of length n over the set S
distinctSeqs(S, n) ==
    { s \in [1 .. n -> S] : \A i, j \in 1 .. n : i # j => s[i] # s[j] }

\* HexUtil.getRandomMapTiles: the samples the random source may produce:
\* `count` distinct tiles of the given type, or all of them when fewer exist
getRandomMapTiles(grid, count, type) ==
    LET pool == { k \in DOMAIN grid : grid[k].Type = type }
    IN  distinctSeqs(pool, Max2(0, Min2(count, Cardinality(pool))))

\* the neighbourhood searched is one ring too small
canBeTownInner(key, grid, radius) ==
    \A coord \in getNearbyCoordinates(grid[key].Position, radius - 1) :
        axialKey(coord) \in DOMAIN grid => grid[axialKey(coord)].Type # "Town"

\* a neighbourhood that leaves the grid also rejects the candidate
canBeTownInGrid(key, grid, radius) ==
    \A coord \in getNearbyCoordinates(grid[key].Position, radius) :
        axialKey(coord) \in DOMAIN grid /\ grid[axialKey(coord)].Type # "Town"

\* only the outermost ring of the neighbourhood is searched
canBeTownRingOnly(key, grid, radius) ==
    \A coord \in getNearbyCoordinates(grid[key].Position, radius) :
        ( /\ axialKey(coord) \in DOMAIN grid
          /\ hexDistance(coord, grid[key].Position) = radius )
        => grid[axialKey(coord)].Type # "Town"

\* lines 172-190: no tile around the candidate is a Town
canBeTown(key, grid, radius) ==
    \A coord \in getNearbyCoordinates(grid[key].Position, radius) :
        axialKey(coord) \in DOMAIN grid => grid[axialKey(coord)].Type # "Town"

\* lines 217-220
returnMap == result' = "map"

\* the loop condition with <= for <
loopContinuesInclusive(generated, total) == generated <= total

\* line 167: the condition of the placement loop
loopContinues(generated, total) == generated < total

\* line 167, condition false: the loop is left and the map returned
LoopExit ==
    /\ pc = "towns"
    /\ ~loopContinues(townsGenerated, config.TotalTowns)
    /\ pc' = "done"
    /\ returnMap
    /\ UNCHANGED << config, tiles, cubeX, landAfterFilter, filterRuns >>
    /\ UNCHANGED floodVars
    /\ UNCHANGED placerVars

\* the towns already placed are not subtracted
sampleSizeWhole(total, generated) == total

\* line 168: the number of candidates asked for
sampleSize(total, generated) == total - generated

\* lines 167-170: a round begins with a fresh sample
RoundStart ==
    /\ pc = "towns"
    /\ loopContinues(townsGenerated, config.TotalTowns)
    /\ townSeeds' \in getRandomMapTiles(tiles, sampleSize(config.TotalTowns, townsGenerated), "Land")
    /\ newTownThisIteration' = FALSE
    /\ pc' = "candidates"
    /\ UNCHANGED << config, tiles, cubeX, result, landAfterFilter, filterRuns, rounds,
                    townExclusionZoneRadius, townExclusionZoneRetries, townsGenerated >>
    /\ UNCHANGED floodVars

\* lines 171-197: one candidate of the sample is examined
PlaceCandidate ==
    /\ pc = "candidates"
    /\ townSeeds # << >>
    /\ LET tile == Head(townSeeds)
       IN  IF canBeTown(tile, tiles, townExclusionZoneRadius)
           THEN /\ tiles' = [tiles EXCEPT ![tile].Type = "Town"]
                /\ townsGenerated' = townsGenerated + 1
                /\ newTownThisIteration' = TRUE
           ELSE UNCHANGED << tiles, townsGenerated, newTownThisIteration >>
    /\ townSeeds' = Tail(townSeeds)
    /\ UNCHANGED << pc, config, cubeX, result, landAfterFilter, filterRuns, rounds,
                    townExclusionZoneRadius, townExclusionZoneRetries >>
    /\ UNCHANGED floodVars

\* the retry count is cleared by a round that placed a Town
retriesAfterCleared(retries, newTown) ==
    IF newTown THEN 0
    ELSE IF retries + 1 = MaxRetries THEN 0 ELSE retries + 1

\* lines 199-206: retries and exclusion radius after a round
retriesAfter(retries, newTown) ==
    LET r == IF newTown THEN retries ELSE retries + 1
    IN  IF r = MaxRetries THEN 0 ELSE r

\* the exclusion radius is never relaxed
radiusAfterStuck(radius, retries, newTown) == radius

radiusAfter(radius, retries, newTown) ==
    LET r == IF newTown THEN retries ELSE retries + 1
    IN  IF r = MaxRetries THEN radius - 1 ELSE radius

\* the placer gives up one radius early
gaveUpEarly(radius) == radius = 0

\* line 208: the placer gives up
gaveUp(radius) == radius = -1

\* lines 199-215: the round ends: give up at radius -1, else yield and loop
RoundEnd ==
    /\ pc = "candidates"
    /\ townSeeds = << >>
    /\ townExclusionZoneRetries' = retriesAfter(townExclusionZoneRetries, newTownThisIteration)
    /\ townExclusionZoneRadius' =
           radiusAfter(townExclusionZoneRadius, townExclusionZoneRetries, newTownThisIteration)
    /\ rounds' = rounds + 1
    /\ IF gaveUp(townExclusionZoneRadius')
       THEN pc' = "done" /\ returnMap
       ELSE pc' = "towns" /\ UNCHANGED result
    /\ UNCHANGED << config, tiles, cubeX, landAfterFilter, filterRuns, townsGenerated,
                    townSeeds, newTownThisIteration >>
    /\ UNCHANGED floodVars

Next ==
    \/ Start
    \/ BuildRow
    \/ FloodInit
    \/ FloodStep
    \/ Demote
    \/ LoopExit
    \/ RoundStart
    \/ PlaceCandidate
    \/ RoundEnd

Spec == Init /\ [][Next]_vars

\* the generator runs to completion: no step is ever withheld
FairSpec == Spec /\ WF_vars(Next)

\* lines 120-139 past the horizon of the model, in a world without water:
\* every neighbour sampled is above the water level, so the ring after the
\* dequeued coordinate's is enqueued in turn and the queue is never exhausted.
\* The coordinates past the horizon are not tracked: the dequeued coordinate
\* goes back to the end of the queue to stand for the ones it leads to.
FloodBeyond ==
    /\ pc = "flood"
    /\ pastHorizon
    /\ toVisit' = SubSeq(toVisit, 1, visitIdx)
                     \o SubSeq(toVisit, visitIdx + 2, Len(toVisit))
                     \o << toVisit[visitIdx + 1] >>
    /\ UNCHANGED << pc, config, tiles, cubeX, result, landAfterFilter, filterRuns,
                    visited, visitIdx >>
    /\ UNCHANGED placerVars

\* a water level below the noise provider's range
FloodWaterLevels == {-30}

\* the connectivity filter alone, for water levels in and below the range
InitFlood ==
    /\ config \in [ Radius : 0 .. MaxRadius,
                    TotalTowns : {0},
                    GenerateBiomes : {FALSE},
                    WaterLevel : {{}} \cup { {w} : w \in WaterLevels \cup FloodWaterLevels },
                    Seed : { {s} : s \in Seeds } ]
    /\ initLocals

NextFlood ==
    \/ Start
    \/ BuildRow
    \/ FloodInit
    \/ FloodStep
    \/ FloodBeyond
    \/ Demote

\* the filter runs on without pause: no step of it is ever withheld
FairSpecFlood == InitFlood /\ [][NextFlood]_vars /\ WF_vars(NextFlood)

\* lines 120-139 with the queued coordinates expanded in any order: some
\* coordinate not yet expanded is brought to the cursor and expanded
FloodStepAny ==
    /\ pc = "flood"
    /\ \E i \in (visitIdx + 1) .. Min2(visitIdx + MaxReorder, Len(toVisit)) :
         LET tile == toVisit[i]
             rest == SubSeq(toVisit, visitIdx + 1, i - 1)
                       \o SubSeq(toVisit, i + 1, Len(toVisit))
         IN  /\ visited' = floodMarks(tile, visited, Impl)
             /\ toVisit' = SubSeq(toVisit, 1, visitIdx) \o << tile >> \o rest
                              \o floodPushed(tile, visited, Impl)
    /\ visitIdx' = visitIdx + 1
    /\ UNCHANGED << pc, config, tiles, cubeX, result, landAfterFilter, filterRuns >>
    /\ UNCHANGED placerVars

\* the connectivity filter alone, for water levels inside the range; the
\* traversal reads neither the grid nor Radius, so two radii are enough
InitAnyOrder ==
    /\ config \in [ Radius : {0, MaxRadius},
                    TotalTowns : {0},
                    GenerateBiomes : {FALSE},
                    WaterLevel : {{}} \cup { {w} : w \in WaterLevels },
                    Seed : { {s} : s \in Seeds } ]
    /\ initLocals

NextAnyOrder ==
    \/ Start
    \/ BuildRow
    \/ FloodInit
    \/ FloodStepAny
    \/ Demote

SpecAnyOrder == InitAnyOrder /\ [][NextAnyOrder]_vars

\* water levels low enough for tiles with no water around them
BiomeWaterLevels == {-12, -20}

\* the classifier alone: biomes are generated for every tile of the build
InitBiome ==
    /\ config \in [ Radius : 0 .. MaxRadius,
                    TotalTowns : {0},
                    GenerateBiomes : {TRUE},
                    WaterLevel : {{}} \cup { {w} : w \in BiomeWaterLevels },
                    Seed : { {s} : s \in Seeds } ]
    /\ initLocals

NextBiome ==
    \/ Start
    \/ BuildRow

SpecBiome == InitBiome /\ [][NextBiome]_vars

\* the connectivity filter (lines 114-157) is run again on the grid it produced
Refilter ==
    /\ pc = "towns"
    /\ rounds = 0
    /\ filterRuns < MaxFilterRuns
    /\ visited' = [ k \in {<<0, 0>>} |-> TRUE ]
    /\ toVisit' = << Axial(0, 0) >>
    /\ visitIdx' = 0
    /\ pc' = "flood"
    /\ UNCHANGED << config, tiles, cubeX, result, landAfterFilter, filterRuns >>
    /\ UNCHANGED placerVars

NextTwice ==
    \/ Next
    \/ Refilter

SpecTwice == Init /\ [][NextTwice]_vars

\* ------------------------------------------------------------ claim helpers
TypeOK ==
    /\ pc \in {"start", "build", "flood", "towns", "candidates", "done"}
    /\ result \in {"none", "map"}
    /\ \A k \in DOMAIN tiles :
         /\ tiles[k].Type \in {"Land", "Water", "Town"}
         /\ tiles[k].Biome \in {"Water", "Grassland", "Coastline", "MountainSnow", "Mountain"}

\* the connectivity filter has run
FilterDone == pc \in {"towns", "candidates", "done"}

\* the build loop has finished
BuildDone == pc \in {"flood", "towns", "candidates", "done"}

\* inside the placement loop: in a round, or back at the loop head after one
InPlacementLoop == pc = "candidates" \/ (pc = "towns" /\ rounds > 0)

KeysOfType(type) == { k \in DOMAIN tiles : tiles[k].Type = type }

heightOf(k) == calculateDecayingNoise(Axial(k[1], k[2]), Impl.Seed, Impl.Radius)

\* keys of the hexagon of radius r around the origin
HexKeys(r) ==
    { k \in (-r .. r) \X (-r .. r) : cubeDistance(Axial(k[1], k[2])) <= r }

\* the non-Water tiles linked to the keys of S by ring-1 steps over non-Water tiles
RECURSIVE gridReach(_, _)
gridReach(grid, S) ==
    LET more == { k \in DOMAIN grid \ S :
                    /\ grid[k].Type # "Water"
                    /\ \E j \in S : hexDistance(grid[k].Position, grid[j].Position) = 1 }
    IN  IF more = {} THEN S ELSE gridReach(grid, S \cup more)

\* the tiles joined to the origin tile without crossing Water
originComponent(grid) ==
    gridReach(grid, { k \in DOMAIN grid : k = <<0, 0>> /\ grid[k].Type # "Water" })

\* a Land tile of the build was demoted by the filter
SomeDemoted ==
    \E k \in DOMAIN tiles : tiles[k].Type = "Water" /\ heightOf(k) > Impl.WaterLevel

\* ------------------------------------------------------------------- claims

\* C1: after the connectivity filter has run, every Land tile is connected to
\* the origin by a path of ring-1-adjacent grid tiles none of which is Water.
C1_LandConnectedToOrigin ==
    FilterDone => \A k \in KeysOfType("Land") : k \in originComponent(tiles)

\* C2: in the returned map every Water tile has biome Water and no Town tile
\* has biome Water.
C2_WaterTilesHaveWaterBiome ==
    result = "map" =>
        \A k \in DOMAIN tiles :
            /\ tiles[k].Type = "Water" => tiles[k].Biome = "Water"
            /\ tiles[k].Type = "Town" => tiles[k].Biome # "Water"

\* C3: for radius R >= 0, from the end of the build loop on, the grid holds
\* exactly one tile per coordinate of cube distance <= R, 3R^2 + 3R + 1 in all,
\* each stored under its own position.
C3_GridIsHexagon ==
    (BuildDone /\ config.Radius >= 0) =>
        /\ DOMAIN tiles = HexKeys(config.Radius)
        /\ Cardinality(DOMAIN tiles) = 3 * config.Radius * config.Radius + 3 * config.Radius + 1
        /\ \A k \in DOMAIN tiles : tiles[k].Position = Axial(k[1], k[2])

C3_Witness ==
    /\ pc = "done"
    /\ config.Radius = 2
    /\ Cardinality(DOMAIN tiles) = 19
    /\ townsGenerated = 2
    /\ SomeDemoted

\* C4: a tile's type changes only Land -> Water (in the filter's demotion
\* pass) or Land -> Town (in the placer); no tile is removed and the number of
\* Town tiles never decreases.
C4_TypeTransitions ==
    [][ /\ DOMAIN tiles \subseteq DOMAIN tiles'
        /\ \A k \in DOMAIN tiles :
             \/ tiles'[k].Type = tiles[k].Type
             \/ tiles[k].Type = "Land" /\ tiles'[k].Type = "Water" /\ pc = "flood"
             \/ tiles[k].Type = "Land" /\ tiles'[k].Type = "Town" /\ pc = "candidates"
        /\ Cardinality({ k \in DOMAIN tiles : tiles[k].Type = "Town" })
             <= Cardinality({ k \in DOMAIN tiles' : tiles'[k].Type = "Town" }) ]_vars

C4_Witness ==
    /\ pc = "towns"
    /\ rounds = 2
    /\ SomeDemoted
    /\ KeysOfType("Town") # {}
    /\ KeysOfType("Land") # {}
    /\ tiles[<<0, 0>>].Type = "Water"

\* C5: when a candidate is promoted under exclusion radius r >= 0, no tile at
\* cube distance <= r from it is a Town at that moment.
C5_NoTownWithinExclusion ==
    [][ ( /\ pc = "candidates"
          /\ townSeeds # << >>
          /\ townExclusionZoneRadius >= 0
          /\ tiles'[Head(townSeeds)].Type = "Town" )
        => \A k \in DOMAIN tiles :
             hexDistance(tiles[k].Position, tiles[Head(townSeeds)].Position)
                 <= townExclusionZoneRadius
             => tiles[k].Type # "Town" ]_vars

\* two Towns promoted in the first round, from one sample, under radius >= 1
C5_Witness ==
    /\ pc = "candidates"
    /\ rounds = 0
    /\ townsGenerated = 2
    /\ townExclusionZoneRadius >= 1
    /\ Cardinality(KeysOfType("Town")) = 2

\* C6: every Town was Land when the filter finished (marked reachable, height
\* above the water level), and every candidate the placer examines is a Land
\* tile of the grid.
C6_TownsWereLand ==
    /\ \A k \in DOMAIN tiles :
         tiles[k].Type = "Town" =>
            /\ k \in landAfterFilter
            /\ visitGood(tiles[k].Position, visited)
            /\ heightOf(k) > Impl.WaterLevel
    /\ pc = "candidates" =>
         \A i \in 1 .. Len(townSeeds) :
            townSeeds[i] \in DOMAIN tiles /\ tiles[townSeeds[i]].Type = "Land"

C6_Witness ==
    /\ result = "map"
    /\ KeysOfType("Town") # {}
    /\ SomeDemoted
    /\ config.GenerateBiomes

\* C7: in the placement loop townsGenerated equals the number of Town tiles
\* and never exceeds TotalTowns.
C7_CounterMatchesTowns ==
    InPlacementLoop =>
        /\ townsGenerated = Cardinality(KeysOfType("Town"))
        /\ townsGenerated <= config.TotalTowns

C7_Witness ==
    /\ pc = "candidates"
    /\ townSeeds # << >>
    /\ townsGenerated = 1
    /\ rounds > 0
    /\ config.TotalTowns = 2

\* C8: with radius >= 0 and TotalTowns above the number of Land tiles left by
\* the filter, the placer always ends, and ends with the exclusion radius at
\* -1, fewer Towns than requested and the map returned.
C8_UnderPlacementGivesUp ==
    /\ [](( /\ pc = "done"
            /\ config.Radius >= 0
            /\ config.TotalTowns > Cardinality(landAfterFilter) )
          => ( /\ townExclusionZoneRadius = -1
               /\ townsGenerated < config.TotalTowns
               /\ townsGenerated <= Cardinality(landAfterFilter)
               /\ result = "map" ))
    /\ ( ( /\ pc = "towns"
           /\ config.Radius >= 0
           /\ config.TotalTowns > Cardinality(landAfterFilter) )
         ~> pc = "done" )

C8_Witness ==
    /\ pc = "done"
    /\ config.Radius = 2
    /\ config.TotalTowns = 2
    /\ Cardinality(landAfterFilter) = 1
    /\ townsGenerated = 1
    /\ townExclusionZoneRadius = -1

\* C9: a configuration with a negative radius or a negative TotalTowns is
\* refused before any tile work: no build, no flood fill, no placement, no map.
C9_BadConfigRefused ==
    (config.Radius < 0 \/ config.TotalTowns < 0) =>
        /\ pc \notin {"build", "flood", "towns", "candidates"}
        /\ result = "none"
        /\ tiles = << >>

\* C10: a second run of the connectivity filter on the grid it has filtered
\* changes no tile.
C10_FilterIdempotent ==
    [][ (pc = "flood" /\ pc' = "towns" /\ filterRuns >= 1) => tiles' = tiles ]_vars

\* the second pass has finished on a grid whose first pass demoted a tile
C10_Witness ==
    /\ pc = "towns"
    /\ filterRuns = 2
    /\ SomeDemoted
    /\ KeysOfType("Land") # {}

\* C11: with TotalTowns = 0 the placer performs no round: no sample is drawn,
\* nothing is yielded, the exclusion radius and retries keep their initial
\* values, no tile becomes Town, and the grid is returned as the filter left it.
C11_ZeroTownsZeroRounds ==
    /\ []( (config.TotalTowns = 0 /\ FilterDone) =>
             /\ pc # "candidates"
             /\ rounds = 0
             /\ townSeeds = << >>
             /\ townsGenerated = 0
             /\ townExclusionZoneRadius = Min2(config.Radius, MaxExclusionRadius)
             /\ townExclusionZoneRetries = 0
             /\ KeysOfType("Town") = {}
             /\ KeysOfType("Land") = landAfterFilter )
    /\ [][ (config.TotalTowns = 0 /\ pc = "towns") =>
             (pc' = "done" /\ result' = "map" /\ tiles' = tiles) ]_vars

C11_Witness ==
    /\ pc = "done"
    /\ result = "map"
    /\ config.TotalTowns = 0
    /\ config.Radius = 2
    /\ landAfterFilter # {}
    /\ SomeDemoted

\* height of the coordinate stored under key k
heightAt(k) == calculateDecayingNoise(Axial(k[1], k[2]), Impl.Seed, Impl.Radius)

\* keys one hex step away from key k, inside the map radius or not
adjacentKeys(k) ==
    { n \in ((k[1] - 1) .. (k[1] + 1)) \X ((k[2] - 1) .. (k[2] + 1)) :
        hexDistance(Axial(n[1], n[2]), Axial(k[1], k[2])) = 1 }

waterNextTo(k) == \E n \in adjacentKeys(k) : heightAt(n) <= Impl.WaterLevel

\* C12: getTileBiome gives Water iff the tile's height is <= waterLevel; else
\* Coastline iff one of its 6 neighbours (in the map or not) has height
\* <= waterLevel; else MountainSnow iff height > 0.2, Mountain iff
\* 0 < height <= 0.2, Grassland iff height <= 0.
C12_BiomeByHeight ==
    pc = "build" =>
        \A k \in DOMAIN tiles :
            LET h == heightAt(k)
                dry == h > Impl.WaterLevel /\ ~waterNextTo(k)
                b == tiles[k].Biome
            IN  /\ Cardinality(adjacentKeys(k)) = 6
                /\ b = "Water" <=> h <= Impl.WaterLevel
                /\ b = "Coastline" <=> (h > Impl.WaterLevel /\ waterNextTo(k))
                /\ b = "MountainSnow" <=> (dry /\ h > 2)
                /\ b = "Mountain" <=> (dry /\ 0 < h /\ h <= 2)
                /\ b = "Grassland" <=> (dry /\ h <= 0)

\* a finished grid with a Water tile exactly at the water level, a Mountain
\* tile exactly at 0.2 and a rim tile that is Coastline only through a
\* neighbour outside the map radius
C12_Witness ==
    /\ pc = "build"
    /\ cubeX > config.Radius
    /\ \E k \in DOMAIN tiles : tiles[k].Biome = "Water" /\ heightAt(k) = Impl.WaterLevel
    /\ \E k \in DOMAIN tiles : tiles[k].Biome = "Mountain" /\ heightAt(k) = 2
    /\ \E k \in DOMAIN tiles :
         /\ tiles[k].Biome = "Coastline"
         /\ \A n \in adjacentKeys(k) : n \in DOMAIN tiles => heightAt(n) > Impl.WaterLevel

\* C13: the caller's configuration object is left unchanged by the call:
\* no step of BuildMapDefinition writes to any of its fields.
C13_ConfigUnchanged == [][config' = config]_vars

\* the placer has its state set up and the configuration is in range
PlacerReady == FilterDone /\ config.Radius >= 0 /\ config.TotalTowns >= 0

\* C14: for radius >= 0 and TotalTowns >= 0 the placement loop ends, after at
\* most TotalTowns + 3 * (min(radius, 10) + 1) rounds, with TotalTowns placed
\* or with the exclusion radius at -1; every round places a Town or counts as
\* a round without progress.
C14_PlacerTerminates ==
    /\ []( PlacerReady =>
             /\ rounds <= config.TotalTowns
                            + 3 * (Min2(config.Radius, MaxExclusionRadius) + 1)
             /\ rounds <= townsGenerated
                            + 3 * (Min2(config.Radius, MaxExclusionRadius)
                                     - townExclusionZoneRadius)
                            + townExclusionZoneRetries
             /\ pc = "done" =>
                  \/ townsGenerated = config.TotalTowns
                  \/ townExclusionZoneRadius = -1 )
    /\ ( (PlacerReady /\ pc = "towns") ~> pc = "done" )

\* the placer gave up after the full number of rounds the bound allows
C14_Witness ==
    /\ pc = "done"
    /\ config.Radius = 2
    /\ config.TotalTowns = 2
    /\ townsGenerated = 1
    /\ rounds = 10
    /\ townExclusionZoneRadius = -1

\* C15: the exclusion radius starts at min(radius, 10) with retries 0; it
\* changes only by -1, at the end of a round that accepted no candidate when
\* two such rounds were already counted, and retries is then reset to 0; a
\* round that places a Town changes neither; retries stays in 0 .. 2.
C15_RadiusAndRetries ==
    /\ []( FilterDone => townExclusionZoneRetries \in 0 .. 2 )
    /\ [][ /\ (pc = "flood" /\ pc' = "towns") =>
                /\ townExclusionZoneRadius' = Min2(config.Radius, MaxExclusionRadius)
                /\ townExclusionZoneRetries' = 0
           /\ FilterDone =>
                LET roundEnds == pc = "candidates" /\ townSeeds = << >>
                    third == roundEnds /\ ~newTownThisIteration
                               /\ townExclusionZoneRetries = 2
                IN  /\ third =>
                          /\ townExclusionZoneRadius' = townExclusionZoneRadius - 1
                          /\ townExclusionZoneRetries' = 0
                    /\ ~third => townExclusionZoneRadius' = townExclusionZoneRadius
                    /\ (roundEnds /\ newTownThisIteration) =>
                          townExclusionZoneRetries' = townExclusionZoneRetries
                    /\ (roundEnds /\ ~newTownThisIteration /\ ~third) =>
                          townExclusionZoneRetries' = townExclusionZoneRetries + 1
                    /\ ~roundEnds =>
                          townExclusionZoneRetries' = townExclusionZoneRetries ]_vars

\* one round placed a Town, three rounds made no progress, and the radius
\* has just been relaxed by one
C15_Witness ==
    /\ pc = "towns"
    /\ townsGenerated = 1
    /\ config.TotalTowns = 2
    /\ townExclusionZoneRadius = Min2(config.Radius, MaxExclusionRadius) - 1
    /\ townExclusionZoneRadius >= 0
    /\ townExclusionZoneRetries = 0
    /\ rounds = 4

\* C16: the flood fill ends with its queue exhausted for every bounded height
\* function, heights above the water level beyond the map radius included,
\* and no coordinate is enqueued twice.
C16_FloodFillTerminates ==
    /\ []( \A i, j \in 1 .. Len(toVisit) : i # j => toVisit[i] # toVisit[j] )
    /\ ( pc = "flood" ~> (pc = "towns" /\ visitIdx = Len(toVisit)) )

\* keys above the water level linked to the keys of S by ring-1 steps over
\* keys above the water level, within the hexagon of the given radius
RECURSIVE heightReach(_, _)
heightReach(S, ring) ==
    LET more == { k \in HexKeys(ring) \ S :
                    /\ heightAt(k) > Impl.WaterLevel
                    /\ \E j \in S : k \in adjacentKeys(j) }
    IN  IF more = {} THEN S ELSE heightReach(S \cup more, ring)

\* the origin and what is linked to it above water
originReach == heightReach({<<0, 0>>}, MaxFloodRing + 2)

markedReachable == { k \in DOMAIN visited : visited[k] }

\* C17: whatever the order in which queued coordinates are expanded, the
\* coordinates marked reachable are the origin and exactly the coordinates
\* above the water level linked to it by a chain of adjacent coordinates
\* above the water level.
C17_ReachableSetByHeight ==
    /\ pc = "flood" =>
         \A k \in markedReachable \ {<<0, 0>>} :
            /\ heightAt(k) > Impl.WaterLevel
            /\ \E j \in markedReachable : k \in adjacentKeys(j)
    /\ pc = "towns" =>
         /\ markedReachable = originReach
         /\ \A k \in originReach : cubeDistance(Axial(k[1], k[2])) <= MaxFloodRing + 1

\* the filter has ended after an expansion out of queue order, with a Water
\* origin and land reached from it
C17_Witness ==
    /\ pc = "towns"
    /\ Len(toVisit) >= 4
    /\ \E i \in 1 .. (Len(toVisit) - 1) :
         cubeDistance(toVisit[i]) > cubeDistance(toVisit[i + 1])
    /\ heightAt(<<0, 0>>) <= Impl.WaterLevel

\* C18: the demotion pass changes exactly the Land tiles whose coordinate
\* has no reachable mark, making their type and biome Water; every other tile
\* keeps its type and biome, and no tile is added or removed.
C18_DemotionFrame ==
    [][ (pc = "flood" /\ pc' = "towns")
        => /\ DOMAIN tiles' = DOMAIN tiles
           /\ \A k \in DOMAIN tiles :
                IF tiles[k].Type = "Land" /\ k \notin markedReachable
                THEN /\ tiles'[k].Type = "Water"
                     /\ tiles'[k].Biome = "Water"
                     /\ tiles'[k].Position = tiles[k].Position
                ELSE tiles'[k] = tiles[k] ]_vars

\* just after the pass: a tile was demoted, a Water tile kept a biome other
\* than Water, and a Land tile is left
C18_Witness ==
    /\ pc = "towns"
    /\ rounds = 0
    /\ SomeDemoted
    /\ \E k \in DOMAIN tiles : tiles[k].Type = "Water" /\ tiles[k].Biome # "Water"
    /\ KeysOfType("Land") # {}

\* C19: with TotalTowns >= 1 and a Land tile left by the filter, the first
\* candidate of the first round becomes a Town whatever the exclusion radius,
\* so the returned map has a Town; with Radius 0 and the origin above the water
\* level, tile (0,0) stays Land through the filter and is a Town in the
\* returned map.
C19_FirstCandidatePromoted ==
    /\ [][ ( /\ pc = "candidates"
             /\ rounds = 0
             /\ townsGenerated = 0
             /\ townSeeds # << >> )
           => tiles'[Head(townSeeds)].Type = "Town" ]_vars
    /\ []( ( /\ pc = "candidates"
             /\ rounds = 0
             /\ config.TotalTowns >= 1
             /\ landAfterFilter # {} )
           => (townSeeds # << >> \/ townsGenerated >= 1) )
    /\ []( ( /\ result = "map"
             /\ config.TotalTowns >= 1
             /\ landAfterFilter # {} )
           => KeysOfType("Town") # {} )
    /\ []( ( /\ config.Radius = 0
             /\ config.TotalTowns >= 1
             /\ FilterDone
             /\ heightAt(<<0, 0>>) > Impl.WaterLevel )
           => /\ tiles[<<0, 0>>].Type \in {"Land", "Town"}
              /\ result = "map" => tiles[<<0, 0>>].Type = "Town" )

\* a one-tile map returned with its only tile a Town
C19_Witness ==
    /\ result = "map"
    /\ config.Radius = 0
    /\ config.TotalTowns >= 1
    /\ DOMAIN tiles = {<<0, 0>>}
    /\ tiles[<<0, 0>>].Type = "Town"

\* C20: while the placer runs with an exclusion radius >= 0, and in the map
\* it returns, any two distinct Towns are further apart than the current
\* exclusion radius.
C20_TownsApart ==
    (FilterDone /\ townExclusionZoneRadius >= 0)
    => \A a, b \in KeysOfType("Town") :
         a # b => hexDistance(tiles[a].Position, tiles[b].Position)
                      > townExclusionZoneRadius

\* two Towns in a returned map, the second placed after the radius shrank
C20_Witness ==
    /\ result = "map"
    /\ Cardinality(KeysOfType("Town")) = 2
    /\ townExclusionZoneRadius >= 1
    /\ townExclusionZoneRadius < Min2(config.Radius, MaxExclusionRadius)

====
